---- MODULE Spec2Model ----
(***************************************************************************)
(* SceneScout: the frame-sampling extraction loop (process_video), the     *)
(* directory variant (process_videos_in_directory) and the substring       *)
(* search over the stored JSON metadata (search_metadata).                 *)
(*                                                                         *)
(* Strings are sequences of one-character strings, so that lower(),        *)
(* endswith(), replace(), splitext() and `in` are computed character by    *)
(* character.  A float is an exact fraction <<numerator, denominator>> in  *)
(* lowest terms.  A metadata file is the sequence of JSON tokens that      *)
(* json.dump writes and json.load parses.                                  *)
(***************************************************************************)
EXTENDS Integers, Sequences, FiniteSets, TLC

(* ----------------------------- bounds ---------------------------------- *)
\* frames of the video when the directory holds a single entry
MaxFrames == 3
\* frames of each video when the directory holds several entries
DirFrames == 1
\* largest sampling stride (frame_skip) tried
MaxStride == 2
\* entries of the video directory
MaxFiles == 2
\* entries of a metadata directory that exists before the run
MaxMetaFiles == 2

(* ------------------------- program constants --------------------------- *)
\* `or 30`: the frame rate used when the decoder reports none
DefaultFps == 30

(* ------------------------------ strings -------------------------------- *)
UpperAlpha ==
  << "A","B","C","D","E","F","G","H","I","J","K","L","M",
     "N","O","P","Q","R","S","T","U","V","W","X","Y","Z" >>

LowerAlpha ==
  << "a","b","c","d","e","f","g","h","i","j","k","l","m",
     "n","o","p","q","r","s","t","u","v","w","x","y","z" >>

UpperSet == {UpperAlpha[i] : i \in 1..Len(UpperAlpha)}

LowerChar(c) ==
  IF c \in UpperSet
    THEN LowerAlpha[CHOOSE i \in 1..Len(UpperAlpha) : UpperAlpha[i] = c]
    ELSE c

\* str.lower()
Lower(s) == [i \in 1..Len(s) |-> LowerChar(s[i])]

\* str.endswith(suffix)
EndsWith(s, suffix) ==
  /\ Len(suffix) <= Len(s)
  /\ SubSeq(s, Len(s) - Len(suffix) + 1, Len(s)) = suffix

\* needle in hay
Contains(hay, needle) ==
  \E i \in 0..(Len(hay) - Len(needle)) :
    SubSeq(hay, i + 1, i + Len(needle)) = needle

RECURSIVE ReplaceAll(_, _)
\* str.replace(old, ""): every non-overlapping occurrence, left to right
ReplaceAll(s, old) ==
  IF Len(s) < Len(old) \/ Len(old) = 0 THEN s
  ELSE IF SubSeq(s, 1, Len(old)) = old
    THEN ReplaceAll(SubSeq(s, Len(old) + 1, Len(s)), old)
    ELSE <<s[1]>> \o ReplaceAll(Tail(s), old)

\* os.path.splitext(name)[0]: cut at the last dot, unless only dots precede it
SplitextRoot(s) ==
  LET dots == {i \in 1..Len(s) : s[i] = "."}
      last == CHOOSE i \in dots : \A j \in dots : j <= i
  IN IF dots = {} THEN s
     ELSE IF \E j \in 1..(last - 1) : s[j] # "." THEN SubSeq(s, 1, last - 1)
     ELSE s

ExtJson == << ".", "j", "s", "o", "n" >>
ExtMp4 == << ".", "m", "p", "4" >>
ExtAvi == << ".", "a", "v", "i" >>
ExtMov == << ".", "m", "o", "v" >>
ExtMkv == << ".", "m", "k", "v" >>

(* ------------------------------- floats -------------------------------- *)
RECURSIVE Gcd(_, _)
Gcd(a, b) == IF b = 0 THEN a ELSE Gcd(b, a % b)

\* the value n / d, d > 0
Frac(n, d) == LET g == Gcd(n, d) IN << n \div g, d \div g >>

FracLeq(x, y) == x[1] * y[2] <= y[1] * x[2]

(* --------------------- pure pieces of process_video -------------------- *)
\* fps = cap.get(cv2.CAP_PROP_FPS) or 30
EffectiveFps(reported) == IF reported = 0 THEN DefaultFps ELSE reported

\* the loop condition off by one: one read too many is taken for a success
ReadSuccessOneMore(frames_read, nframes) == frames_read <= nframes

\* cap.read() succeeds while the decoder has a frame left
ReadSuccess(frames_read, nframes) == frames_read < nframes

\* if frame_count % frame_skip == 0
IsSampled(frame_count, stride) == frame_count % stride = 0

\* the timestamp taken after frame_count += 1
TimestampAfterIncrement(frame_count, rate) == Frac(frame_count + 1, rate)

\* timestamp = frame_count / fps
Timestamp(frame_count, rate) == Frac(frame_count, rate)

\* model.names: class index -> label
Names == << << "C", "a", "r" >>, << "c", "a", "t" >> >>

\* label = model.names[int(cls)]   (class indices are 0-based)
LabelOf(cls) == Names[cls + 1]

\* one metadata record from one detection [x1, y1, x2, y2, conf, cls]
MakeRecord(timestamp, detection) ==
  [ timestamp  |-> timestamp,
    object     |-> LabelOf(detection[6]),
    bbox       |-> << detection[1], detection[2], detection[3], detection[4] >>,
    confidence |-> detection[5] ]

\* video_metadata.insert(0, ...) in place of append
PrependDetections(metadata, timestamp, detections) ==
  [k \in 1..Len(detections) |-> MakeRecord(timestamp, detections[k])] \o metadata

\* for detection in results[0].boxes.data.tolist(): video_metadata.append(...)
AppendDetections(metadata, timestamp, detections) ==
  metadata \o [k \in 1..Len(detections) |-> MakeRecord(timestamp, detections[k])]

(* --------------- pure pieces of process_videos_in_directory ------------ *)
\* filename.lower().endswith((".mp4", ".avi", ".mov", ".mkv"))
IsVideoFile(filename) ==
  LET low == Lower(filename)
  IN \/ EndsWith(low, ExtMp4) \/ EndsWith(low, ExtAvi)
     \/ EndsWith(low, ExtMov) \/ EndsWith(low, ExtMkv)

\* metadata_filename = os.path.splitext(filename)[0] + ".json"
MetadataFilename(filename) == SplitextRoot(filename) \o ExtJson

(* ------------------------ json.dump / json.load ------------------------ *)
\* x, evaluated once
Once(x) == CHOOSE y \in {x} : TRUE

P(s) == [t |-> "punct", v |-> s]
Key(s) == [t |-> "key", v |-> s]
Str(s) == [t |-> "str", v |-> s]
Num(x) == [t |-> "num", v |-> x]

IsP(tok, s) == tok.t = "punct" /\ tok.v = s

\* a list of floats as JSON text
DumpBbox(b) ==
  << P("["), Num(b[1]), P(","), Num(b[2]), P(","), Num(b[3]), P(","), Num(b[4]), P("]") >>

\* one record, keys in insertion order
DumpRecord(r) ==
  << P("{"), Key("timestamp"), P(":"), Num(r.timestamp), P(","),
     Key("object"), P(":"), Str(r.object), P(","),
     Key("bbox"), P(":") >> \o DumpBbox(r.bbox) \o
  << P(","), Key("confidence"), P(":"), Num(r.confidence), P("}") >>

RECURSIVE DumpItems(_, _)
DumpItems(metadata, k) ==
  IF k > Len(metadata) THEN << >>
  ELSE (IF k > 1 THEN << P(",") >> ELSE << >>)
       \o DumpRecord(metadata[k]) \o DumpItems(metadata, k + 1)

\* json.dump(metadata, f, indent=4): the text of the file, white space left out
Dump(metadata) == << P("[") >> \o DumpItems(metadata, 1) \o << P("]") >>

\* parsed JSON values, tagged with their Python type
VNum(x) == [k |-> "num", v |-> x]
VStr(s) == [k |-> "str", v |-> s]
VList(items) == [k |-> "list", v |-> items]
VDict(members) == [k |-> "dict", v |-> members]
VNull == [k |-> "null", v |-> << >>]

ParseFail == [ok |-> FALSE, val |-> VNull, next |-> 0]
ParseOk(val, next) == [ok |-> TRUE, val |-> val, next |-> next]

\* a dict with one more member (a repeated key keeps the last value)
WithMember(members, key, val) ==
  [x \in (DOMAIN members) \cup {key} |-> IF x = key THEN val ELSE members[x]]

RECURSIVE ParseValue(_, _), ParseElems(_, _, _), ParseMembers(_, _, _)
\* the JSON value that starts at token i
ParseValue(toks, i) ==
  IF i > Len(toks) THEN ParseFail
  ELSE LET tok == toks[i] IN
    CASE tok.t = "num" -> ParseOk(VNum(tok.v), i + 1)
      [] tok.t = "str" -> ParseOk(VStr(tok.v), i + 1)
      [] IsP(tok, "null") -> ParseOk(VNull, i + 1)
      [] IsP(tok, "[") ->
           IF i + 1 <= Len(toks) /\ IsP(toks[i + 1], "]")
             THEN ParseOk(VList(<< >>), i + 2)
             ELSE ParseElems(toks, i + 1, << >>)
      [] IsP(tok, "{") ->
           IF i + 1 <= Len(toks) /\ IsP(toks[i + 1], "}")
             THEN ParseOk(VDict(<< >>), i + 2)
             ELSE ParseMembers(toks, i + 1, << >>)
      [] OTHER -> ParseFail

\* the elements of an array, one starting at token i
ParseElems(toks, i, acc) ==
  LET e == Once(ParseValue(toks, i)) IN
    IF ~e.ok \/ e.next > Len(toks) THEN ParseFail
    ELSE IF IsP(toks[e.next], ",") THEN ParseElems(toks, e.next + 1, Append(acc, e.val))
    ELSE IF IsP(toks[e.next], "]") THEN ParseOk(VList(Append(acc, e.val)), e.next + 1)
    ELSE ParseFail

\* the members of an object, one starting at token i
ParseMembers(toks, i, acc) ==
  IF i + 1 > Len(toks) \/ toks[i].t # "key" \/ ~IsP(toks[i + 1], ":") THEN ParseFail
  ELSE LET e == Once(ParseValue(toks, i + 2)) IN
    IF ~e.ok \/ e.next > Len(toks) THEN ParseFail
    ELSE IF IsP(toks[e.next], ",")
      THEN ParseMembers(toks, e.next + 1, WithMember(acc, toks[i].v, e.val))
    ELSE IF IsP(toks[e.next], "}")
      THEN ParseOk(VDict(WithMember(acc, toks[i].v, e.val)), e.next + 1)
    ELSE ParseFail

\* data = json.load(f): one value and nothing after it, else JSONDecodeError
Load(toks) ==
  LET e == Once(ParseValue(toks, 1)) IN
    IF e.ok /\ e.next = Len(toks) + 1 THEN [ok |-> TRUE, val |-> e.val]
    ELSE [ok |-> FALSE, val |-> VNull]

RECURSIVE Plain(_)
\* the Python value behind a parsed value (the value search_metadata copies)
Plain(val) ==
  CASE val.k = "num" -> val.v
    [] val.k = "str" -> val.v
    [] val.k = "list" -> [i \in 1..Len(val.v) |-> Plain(val.v[i])]
    [] val.k = "dict" -> [x \in DOMAIN val.v |-> Plain(val.v[x])]
    [] OTHER -> << >>

(* ---------------------- pure pieces of search_metadata ----------------- *)
\* filename.endswith(".json")
IsJsonFile(filename) == EndsWith(filename, ExtJson)

\* the query compared as typed: query in detection["object"].lower()
MatchesQueryAsTyped(q, label) == Contains(Lower(label), q)

\* query.lower() in detection["object"].lower()
Matches(q, label) == Contains(Lower(label), Lower(q))

\* "video": filename.replace(".json", "")
VideoName(filename) == ReplaceAll(filename, ExtJson)

\* "confidence": detection["bbox"], a copied line left unedited
ResultOfBboxAsConfidence(filename, detection) ==
  [ video      |-> ReplaceAll(filename, ExtJson),
    timestamp  |-> Plain(detection["timestamp"]),
    object     |-> Plain(detection["object"]),
    bbox       |-> Plain(detection["bbox"]),
    confidence |-> Plain(detection["bbox"]) ]

\* the dict appended for a matching detection; the four subscripts raise
\* KeyError when the key is missing
ResultOf(filename, detection) ==
  [ video      |-> VideoName(filename),
    timestamp  |-> Plain(detection["timestamp"]),
    object     |-> Plain(detection["object"]),
    bbox       |-> Plain(detection["bbox"]),
    confidence |-> Plain(detection["confidence"]) ]

ScanRaise == [ok |-> FALSE, results |-> << >>, src |-> << >>]

RECURSIVE ScanItems(_, _, _, _, _, _)
\* for detection in data: ... over the items of a list, from item k on;
\* src records the index of the stored record each result was made from
ScanItems(q, filename, items, k, results, src) ==
  IF k > Len(items) THEN [ok |-> TRUE, results |-> results, src |-> src]
  ELSE LET detection == items[k] IN
    \* detection["object"]: TypeError on a non-dict, KeyError on a missing key
    IF detection.k # "dict" THEN ScanRaise
    ELSE IF "object" \notin DOMAIN detection.v THEN ScanRaise
    \* .lower(): AttributeError unless the label is a string
    ELSE IF detection.v["object"].k # "str" THEN ScanRaise
    ELSE IF Matches(q, detection.v["object"].v)
      THEN IF {"timestamp", "bbox", "confidence"} \subseteq DOMAIN detection.v
        THEN ScanItems(q, filename, items, k + 1,
                       Append(results, ResultOf(filename, detection.v)),
                       Append(src, k))
        ELSE ScanRaise
    ELSE ScanItems(q, filename, items, k + 1, results, src)

\* the inner loop over whatever json.load returned
ScanData(q, filename, data) ==
  CASE data.k = "list" -> ScanItems(q, filename, data.v, 1, << >>, << >>)
    \* iterating a dict yields its keys, strings: key["object"] is a TypeError
    [] data.k = "dict" ->
         IF DOMAIN data.v = {} THEN [ok |-> TRUE, results |-> << >>, src |-> << >>]
         ELSE ScanRaise
    \* iterating a string yields characters: TypeError on the first one
    [] data.k = "str" ->
         IF Len(data.v) = 0 THEN [ok |-> TRUE, results |-> << >>, src |-> << >>]
         ELSE ScanRaise
    \* a number or null is not iterable
    [] OTHER -> ScanRaise

\* the load and the scan wrapped in try/except: a failing file gives no results
ScanFileSkipMalformed(q, filename, toks) ==
  LET parsed == Once(Load(toks))
      scan == Once(IF parsed.ok THEN ScanData(q, filename, parsed.val) ELSE ScanRaise)
  IN IF scan.ok THEN scan ELSE [ok |-> TRUE, results |-> << >>, src |-> << >>]

\* with open(path) as f: data = json.load(f); for detection in data: ...
ScanFile(q, filename, toks) ==
  LET parsed == Once(Load(toks)) IN
    IF parsed.ok THEN ScanData(q, filename, parsed.val) ELSE ScanRaise

(* ------------------------- inputs of the model ------------------------- *)
\* the file names a video directory is drawn from
VideoFiles ==
  << << "a", ".", "m", "p", "4" >>,
     << "a", ".", "A", "V", "I" >>,
     << "b", ".", "j", "s", "o", "n", ".", "m", "k", "v" >>,
     << "n", ".", "t", "x", "t" >> >>

F(n) == << n, 1 >>

\* detections [x1, y1, x2, y2, conf, cls] the detector may return
DetCar == << F(10), F(10), F(50), F(50), << 91, 100 >>, 0 >>
DetCat == << F(0), F(5), F(20), F(30), << 1, 2 >>, 1 >>

\* results[0].boxes.data.tolist() for one frame
DetectorOutcomes == { << >>, << DetCat, DetCar >> }

\* cap.get(cv2.CAP_PROP_FPS): 0 when the container states no rate
ReportedFps == {0, 2}

\* the query strings tried: "" and "AR"
Queries == { << >>, << "A", "R" >> }

RecCar == MakeRecord(F(3), DetCar)
RecCat == MakeRecord(<< 1, 2 >>, DetCat)

\* names of the entries of a metadata directory that exists before the run:
\* a.json, b.json.json and the frames/ directory
MetaNames ==
  << << "a", ".", "j", "s", "o", "n" >>,
     << "b", ".", "j", "s", "o", "n", ".", "j", "s", "o", "n" >>,
     << "f", "r", "a", "m", "e", "s" >> >>

\* contents of such entries: three arrays of detection records, then a
\* truncated file, null, an empty object, a record without "object" and a
\* record without "confidence"
MetaContents ==
  << Dump(<< RecCar >>),
     Dump(<< RecCat, RecCar, RecCar >>),
     Dump(<< >>),
     << P("["), P("{"), Key("timestamp"), P(":"), Num(F(0)) >>,
     << P("null") >>,
     << P("{"), P("}") >>,
     << P("["), P("{"), Key("timestamp"), P(":"), Num(F(0)), P("}"), P("]") >>,
     << P("["), P("{"), Key("timestamp"), P(":"), Num(F(0)), P(","),
        Key("object"), P(":"), Str(Names[2]), P(","),
        Key("bbox"), P(":") >> \o DumpBbox(RecCat.bbox) \o << P("}"), P(",") >>
       \o DumpRecord(RecCar) \o << P("]") >> >>

Injective(f) == \A i, j \in DOMAIN f : i # j => f[i] # f[j]

(* ------------------------------- state --------------------------------- *)
VARIABLES
  video_dir,      \* os.listdir(video_dir), in enumeration order
  frame_skip,     \* the sampling stride
  metadata_dir,   \* the metadata directory: entries [name, content] in enumeration order
  pc,             \* where the run is
  file_idx,       \* position of the for loop over os.listdir(video_dir)
  cap,            \* the decoder handle of the current video
  fps,            \* process_video's fps
  frame_count,    \* process_video's frame_count
  success,        \* process_video's success
  video_metadata, \* process_video's video_metadata
  sampled,        \* history: the frame indices sent to the detector
  origin,         \* history: for each record, its frame and its place in the detector's list
  extracted,      \* history: what process_video returned for each video so far
  query,          \* search_metadata's query
  list_idx,       \* position of the for loop over os.listdir(metadata_dir)
  results_found,  \* search_metadata's results_found
  result_src      \* history: for each result, the entry and the record it came from

vars ==
  << video_dir, frame_skip, metadata_dir, pc, file_idx, cap, fps, frame_count,
     success, video_metadata, sampled, origin, extracted, query, list_idx,
     results_found, result_src >>

dirVars == << video_dir, frame_skip >>
videoVars == << cap, fps, frame_count, success, video_metadata, sampled, origin >>
searchVars == << query, list_idx, results_found, result_src >>

NoCap == [opened |-> FALSE, nframes |-> 0, reported |-> 0]

\* frames a video may hold, by the size of the directory
FrameBound == IF Len(video_dir) <= 1 THEN MaxFrames ELSE DirFrames

\* The run starts either on a video directory with a fresh metadata directory
\* (process, then search), or on no video and a metadata directory left by
\* earlier runs (search).
Init ==
  /\ \E n \in 0..MaxFiles : \E f \in [1..n -> 1..Len(VideoFiles)] :
       /\ Injective(f)
       /\ video_dir = [i \in 1..n |-> VideoFiles[f[i]]]
  /\ frame_skip \in 1..MaxStride
  /\ \E n \in 0..MaxMetaFiles :
       \E f \in [1..n -> 1..Len(MetaNames)] : \E c \in [1..n -> 1..Len(MetaContents)] :
         /\ Injective(f)
         /\ \A i \in 1..n : ~IsJsonFile(MetaNames[f[i]]) => c[i] = 1
         /\ metadata_dir = [i \in 1..n |-> [name |-> MetaNames[f[i]],
                                            content |-> MetaContents[c[i]]]]
  /\ video_dir = << >> \/ metadata_dir = << >>
  /\ pc = "idle"
  /\ file_idx = 0
  /\ cap = NoCap
  /\ fps = 0
  /\ frame_count = 0
  /\ success = FALSE
  /\ video_metadata = << >>
  /\ sampled = << >>
  /\ origin = << >>
  /\ extracted = << >>
  /\ query = << >>
  /\ list_idx = 0
  /\ results_found = << >>
  /\ result_src = << >>

(* ------------------- process_videos_in_directory ----------------------- *)
\* the call: os.makedirs(metadata_dir), log = "", the for loop starts
StartProcess ==
  /\ pc = "idle"
  /\ pc' = "files"
  /\ file_idx' = 1
  /\ UNCHANGED << dirVars, metadata_dir, videoVars, extracted, searchVars >>

\* a directory entry without a video extension is passed over
SkipFile ==
  /\ pc = "files"
  /\ file_idx <= Len(video_dir)
  /\ ~IsVideoFile(video_dir[file_idx])
  /\ file_idx' = file_idx + 1
  /\ UNCHANGED << dirVars, metadata_dir, pc, videoVars, extracted, searchVars >>

\* process_video raising on a video that does not open, in place of returning
OpenFailsRaises ==
  /\ pc = "files"
  /\ file_idx <= Len(video_dir)
  /\ IsVideoFile(video_dir[file_idx])
  /\ cap' = NoCap
  /\ video_metadata' = << >>
  /\ pc' = "raised"
  /\ UNCHANGED << dirVars, metadata_dir, file_idx, fps, frame_count, success,
                  sampled, origin, extracted, searchVars >>

\* process_video: cap.isOpened() is false; the error is printed and the empty
\* video_metadata is returned
OpenFails ==
  /\ pc = "files"
  /\ file_idx <= Len(video_dir)
  /\ IsVideoFile(video_dir[file_idx])
  /\ cap' = NoCap
  /\ video_metadata' = << >>
  /\ pc' = "write"
  /\ UNCHANGED << dirVars, metadata_dir, file_idx, fps, frame_count, success,
                  sampled, origin, extracted, searchVars >>

\* process_video: the video opens; fps, frame_count = 0 and the first cap.read()
OpenSucceeds ==
  /\ pc = "files"
  /\ file_idx <= Len(video_dir)
  /\ IsVideoFile(video_dir[file_idx])
  /\ \E nframes \in 0..FrameBound : \E reported \in ReportedFps :
       /\ cap' = [opened |-> TRUE, nframes |-> nframes, reported |-> reported]
       /\ fps' = EffectiveFps(reported)
       /\ success' = ReadSuccess(0, nframes)
  /\ frame_count' = 0
  /\ video_metadata' = << >>
  /\ sampled' = << >>
  /\ origin' = << >>
  /\ pc' = "loop"
  /\ UNCHANGED << dirVars, metadata_dir, file_idx, extracted, searchVars >>

\* one iteration on a sampled frame: the detector answers, one record per
\* detection is appended, the next frame is read
DetectFrame ==
  /\ pc = "loop"
  /\ success
  /\ IsSampled(frame_count, frame_skip)
  /\ \E detections \in DetectorOutcomes :
       /\ video_metadata' =
            AppendDetections(video_metadata, Timestamp(frame_count, fps), detections)
       /\ origin' = origin \o [k \in 1..Len(detections) |->
                                 [frame |-> frame_count, pos |-> k]]
  /\ sampled' = Append(sampled, frame_count)
  /\ frame_count' = frame_count + 1
  /\ success' = ReadSuccess(frame_count + 1, cap.nframes)
  /\ UNCHANGED << dirVars, metadata_dir, pc, file_idx, cap, fps, extracted, searchVars >>

\* one iteration on a sampled frame: model(frame) raises; nothing catches it in
\* process_video or in process_videos_in_directory
DetectorRaises ==
  /\ pc = "loop"
  /\ success
  /\ IsSampled(frame_count, frame_skip)
  /\ sampled' = Append(sampled, frame_count)
  /\ pc' = "raised"
  /\ UNCHANGED << dirVars, metadata_dir, file_idx, cap, fps, frame_count, success,
                  video_metadata, origin, extracted, searchVars >>

\* one iteration on a frame the stride does not select
SkipFrame ==
  /\ pc = "loop"
  /\ success
  /\ ~IsSampled(frame_count, frame_skip)
  /\ frame_count' = frame_count + 1
  /\ success' = ReadSuccess(frame_count + 1, cap.nframes)
  /\ UNCHANGED << dirVars, metadata_dir, pc, file_idx, cap, fps, video_metadata,
                  sampled, origin, extracted, searchVars >>

\* the while loop ends: cap.release(), return video_metadata
LoopExit ==
  /\ pc = "loop"
  /\ ~success
  /\ pc' = "write"
  /\ UNCHANGED << dirVars, metadata_dir, file_idx, videoVars, extracted, searchVars >>

\* open(path, "w") on a directory: an entry of that name is truncated and
\* rewritten in place, a new entry appears at position pos of the enumeration
WriteFile(dir, name, content, pos) ==
  IF \E i \in 1..Len(dir) : dir[i].name = name
    THEN [i \in 1..Len(dir) |->
            IF dir[i].name = name THEN [name |-> name, content |-> content] ELSE dir[i]]
    ELSE SubSeq(dir, 1, pos - 1) \o << [name |-> name, content |-> content] >>
         \o SubSeq(dir, pos, Len(dir))

\* back in process_videos_in_directory: the returned list is dumped into
\* <root>.json and the loop moves to the next directory entry
WriteMetadata ==
  /\ pc = "write"
  /\ LET name == MetadataFilename(video_dir[file_idx]) IN
       \E pos \in 1..(Len(metadata_dir) + 1) :
         /\ (\E i \in 1..Len(metadata_dir) : metadata_dir[i].name = name) => pos = 1
         /\ metadata_dir' = WriteFile(metadata_dir, name, Dump(video_metadata), pos)
  /\ extracted' = Append(extracted, [idx |-> file_idx, opened |-> cap.opened,
                                     metadata |-> video_metadata])
  /\ file_idx' = file_idx + 1
  /\ pc' = "files"
  /\ cap' = NoCap
  /\ fps' = 0
  /\ frame_count' = 0
  /\ success' = FALSE
  /\ video_metadata' = << >>
  /\ sampled' = << >>
  /\ origin' = << >>
  /\ UNCHANGED << dirVars, searchVars >>

\* the for loop is exhausted: return log
ProcessDone ==
  /\ pc = "files"
  /\ file_idx > Len(video_dir)
  /\ pc' = "process_done"
  /\ UNCHANGED << dirVars, metadata_dir, file_idx, videoVars, extracted, searchVars >>

(* --------------------------- search_metadata --------------------------- *)
\* the call: results_found = [], the for loop starts
StartSearch ==
  /\ pc \in {"idle", "process_done"}
  /\ query' \in Queries
  /\ list_idx' = 1
  /\ results_found' = << >>
  /\ result_src' = << >>
  /\ pc' = "search"
  /\ UNCHANGED << dirVars, metadata_dir, file_idx, videoVars, extracted >>

\* an entry whose name does not end in .json is passed over
SearchSkip ==
  /\ pc = "search"
  /\ list_idx <= Len(metadata_dir)
  /\ ~IsJsonFile(metadata_dir[list_idx].name)
  /\ list_idx' = list_idx + 1
  /\ UNCHANGED << dirVars, metadata_dir, pc, file_idx, videoVars, extracted, query,
                  results_found, result_src >>

\* a .json entry is loaded and scanned to its end
SearchScan ==
  /\ pc = "search"
  /\ list_idx <= Len(metadata_dir)
  /\ IsJsonFile(metadata_dir[list_idx].name)
  /\ LET e == metadata_dir[list_idx]
         scan == Once(ScanFile(query, e.name, e.content))
     IN /\ scan.ok
        /\ results_found' = results_found \o scan.results
        /\ result_src' = result_src \o
             [k \in 1..Len(scan.src) |-> [entry |-> list_idx, rec |-> scan.src[k]]]
  /\ list_idx' = list_idx + 1
  /\ UNCHANGED << dirVars, metadata_dir, pc, file_idx, videoVars, extracted, query >>

\* json.load or the scan raises; nothing catches it, so search_metadata is
\* left without a return value and its results_found is gone
SearchRaises ==
  /\ pc = "search"
  /\ list_idx <= Len(metadata_dir)
  /\ IsJsonFile(metadata_dir[list_idx].name)
  /\ ~ScanFile(query, metadata_dir[list_idx].name, metadata_dir[list_idx].content).ok
  /\ results_found' = << >>
  /\ result_src' = << >>
  /\ pc' = "search_raised"
  /\ UNCHANGED << dirVars, metadata_dir, file_idx, videoVars, extracted, query, list_idx >>

\* the for loop is exhausted: return results_found
SearchDone ==
  /\ pc = "search"
  /\ list_idx > Len(metadata_dir)
  /\ pc' = "search_done"
  /\ UNCHANGED << dirVars, metadata_dir, file_idx, videoVars, extracted, searchVars >>

Next ==
  \/ StartProcess
  \/ SkipFile
  \/ OpenFails
  \/ OpenSucceeds
  \/ DetectFrame
  \/ DetectorRaises
  \/ SkipFrame
  \/ LoopExit
  \/ WriteMetadata
  \/ ProcessDone
  \/ StartSearch
  \/ SearchSkip
  \/ SearchScan
  \/ SearchRaises
  \/ SearchDone

Spec == Init /\ [][Next]_vars

(* ------------------------ helpers of the properties -------------------- *)
\* label contains q as a case-insensitive substring
CIContains(label, q) ==
  \E off \in 0..(Len(label) - Len(q)) :
    \A j \in 1..Len(q) : LowerChar(label[off + j]) = LowerChar(q[j])

CeilDiv(a, b) == (a + b - 1) \div b

JsonEntries == {p \in 1..Len(metadata_dir) : IsJsonFile(metadata_dir[p].name)}

\* a parsed value is a detection record: a dict with a string label and the
\* three other fields
IsDetectionRecord(val) ==
  /\ val.k = "dict"
  /\ {"object", "timestamp", "bbox", "confidence"} \subseteq DOMAIN val.v
  /\ val.v["object"].k = "str"

\* entry p parses as an array of detection records
IsRecordArray(p) ==
  LET parsed == Once(Load(metadata_dir[p].content)) IN
    /\ parsed.ok
    /\ parsed.val.k = "list"
    /\ \A k \in 1..Len(parsed.val.v) : IsDetectionRecord(parsed.val.v[k])

\* the records stored in entry p
Stored(p) == Load(metadata_dir[p].content).val.v

SameFields(result, rec) ==
  /\ result.timestamp = rec.timestamp
  /\ result.object = rec.object
  /\ result.bbox = rec.bbox
  /\ result.confidence = rec.confidence

(* ------------------------------- C1 ------------------------------------ *)
\* C1: when every .json entry of the metadata directory parses as an array of
\* detection records, search_metadata returns exactly the records whose
\* label contains the query as a case-insensitive substring: each such stored
\* record gives exactly one result with its fields, a record whose label does
\* not contain the query gives none, and every result is such a record.
C1_SearchReturnsExactlyTheMatches ==
  (pc = "search_done" /\ \A p \in JsonEntries : IsRecordArray(p)) =>
    /\ Len(result_src) = Len(results_found)
    /\ \A p \in JsonEntries :
         LET items == Once(Stored(p)) IN
           \A k \in 1..Len(items) :
             LET hits == {j \in 1..Len(result_src) :
                            result_src[j].entry = p /\ result_src[j].rec = k}
             IN /\ Cardinality(hits) =
                     (IF CIContains(items[k].v["object"].v, query) THEN 1 ELSE 0)
                /\ \A j \in hits : SameFields(results_found[j], Plain(items[k]))
    /\ \A j \in 1..Len(results_found) :
         /\ CIContains(results_found[j].object, query)
         /\ result_src[j].entry \in JsonEntries
         /\ result_src[j].rec \in 1..Len(Stored(result_src[j].entry))

\* a search with a non-empty query over two well-formed files that returned
\* several records and left one stored record out
C1_Witness ==
  /\ pc = "search_done"
  /\ Len(query) > 0
  /\ Cardinality(JsonEntries) >= 2
  /\ \A p \in JsonEntries : IsRecordArray(p)
  /\ Len(results_found) >= 2
  /\ \E p \in JsonEntries : \E k \in 1..Len(Stored(p)) :
       ~CIContains(Stored(p)[k].v["object"].v, query)

(* ------------------------------- C2 ------------------------------------ *)
\* C2: for a video of F frames and stride N the frames sent to the detector are
\* exactly those whose 0-based index is a multiple of N, ceil(F / N) of them,
\* and every record made from frame i has timestamp i / rate, the rate being
\* the reported one, or 30 when zero is reported.
C2_SampledFramesAndTimestamps ==
  LET rate == IF cap.reported = 0 THEN 30 ELSE cap.reported IN
    /\ (cap.opened /\ pc \in {"loop", "write"}) =>
         /\ Len(origin) = Len(video_metadata)
         /\ \A r \in 1..Len(video_metadata) :
              /\ video_metadata[r].timestamp[1] * rate =
                   origin[r].frame * video_metadata[r].timestamp[2]
              /\ \E s \in 1..Len(sampled) : sampled[s] = origin[r].frame
    /\ (cap.opened /\ pc = "write") =>
         /\ Len(sampled) = CeilDiv(cap.nframes, frame_skip)
         /\ \A s \in 1..Len(sampled) : sampled[s] = (s - 1) * frame_skip
         /\ \A i \in 0..(cap.nframes - 1) :
              (i % frame_skip = 0) <=> (\E s \in 1..Len(sampled) : sampled[s] = i)

\* three frames at stride two with no reported rate: frames 0 and 2 sampled,
\* the records of frame 2 stamped 2/30
C2_Witness ==
  /\ pc = "write"
  /\ cap.opened
  /\ cap.nframes = 3
  /\ frame_skip = 2
  /\ cap.reported = 0
  /\ sampled = << 0, 2 >>
  /\ \E r \in 1..Len(video_metadata) : video_metadata[r].timestamp = << 1, 15 >>

(* ------------------------------- C3 ------------------------------------ *)
\* C3 (as claimed): every result carries as video name the name of its file
\* with the trailing .json stripped and nothing else changed.
C3_VideoNameIsFileNameWithoutExtension ==
  \A j \in 1..Len(results_found) :
    results_found[j].video \o ExtJson = metadata_dir[result_src[j].entry].name

(* ------------------------------- C4 ------------------------------------ *)
\* C4 (as claimed): a detector failure on a sampled frame does not abort the
\* extraction: the run is never left by an exception while frames remain.
C4_DetectionFailureDoesNotAbort ==
  ~(pc = "raised" /\ cap.opened /\ success)

(* ------------------------------- C5 ------------------------------------ *)
\* C5: a video that cannot be opened raises nothing and yields an empty record
\* list, and the batch goes on: as long as the run has not been left by an
\* exception (which only a detector call on an opened video raises), every
\* video the loop has passed has been processed and has its metadata file,
\* and at the end that is every video of the directory.
C5_UnopenableVideoDoesNotAbort ==
  /\ pc = "raised" => cap.opened
  /\ (pc = "write" /\ ~cap.opened) => video_metadata = << >>
  /\ \A x \in 1..Len(extracted) : ~extracted[x].opened => extracted[x].metadata = << >>
  /\ pc = "process_done" => file_idx = Len(video_dir) + 1
  /\ pc \in {"files", "process_done"} =>
       \A i \in 1..(file_idx - 1) :
         IsVideoFile(video_dir[i]) =>
           /\ \E x \in 1..Len(extracted) : extracted[x].idx = i
           /\ \E p \in 1..Len(metadata_dir) :
                metadata_dir[p].name = MetadataFilename(video_dir[i])

\* a finished batch whose first video did not open and whose second gave records
C5_Witness ==
  /\ pc = "process_done"
  /\ Len(extracted) = 2
  /\ ~extracted[1].opened
  /\ extracted[2].opened
  /\ extracted[2].metadata # << >>
  /\ Len(metadata_dir) = 2

(* ------------------------------- C6 ------------------------------------ *)
\* C6 (as claimed): after the batch the metadata directory holds, for every
\* video, a file named after it that contains the records extracted from it.
C6_OneMetadataFilePerVideo ==
  pc = "process_done" =>
    \A x \in 1..Len(extracted) :
      \E p \in 1..Len(metadata_dir) :
        /\ metadata_dir[p].name = MetadataFilename(video_dir[extracted[x].idx])
        /\ metadata_dir[p].content = Dump(extracted[x].metadata)

(* ------------------------------- C7 ------------------------------------ *)
\* the list process_video returned for the video whose metadata file entry p is
\* (the last one written under that name)
WrittenTo(p) ==
  LET xs == {x \in 1..Len(extracted) :
               MetadataFilename(video_dir[extracted[x].idx]) = metadata_dir[p].name}
      last == CHOOSE x \in xs : \A y \in xs : y <= x
  IN extracted[last].metadata

RECURSIVE WrittenUpTo(_)
\* the lists written to the entries 1..p, in enumeration order
WrittenUpTo(p) == IF p = 0 THEN << >> ELSE WrittenUpTo(p - 1) \o WrittenTo(p)

\* C7: the metadata files written by process_videos_in_directory, read back by
\* a search whose query matches every label, give the same number of records
\* in the same order, each equal field for field to the record written.
C7_RoundTrip ==
  LET written == Once(WrittenUpTo(Len(metadata_dir))) IN
    ( /\ pc = "search_done"
      /\ extracted # << >>
      /\ \A r \in 1..Len(written) : CIContains(written[r].object, query) ) =>
      /\ Len(results_found) = Len(written)
      /\ \A r \in 1..Len(written) : SameFields(results_found[r], written[r])

\* two metadata files written by the batch and read back whole
C7_Witness ==
  /\ pc = "search_done"
  /\ Len(metadata_dir) = 2
  /\ Len(extracted) = 2
  /\ extracted[1].metadata # << >>
  /\ extracted[2].metadata # << >>
  /\ Len(results_found) = 4

(* ------------------------------- C8 ------------------------------------ *)
\* C8: a video that opens and has no frame ends with an empty record list and
\* no exception, the detector is never called, whatever the stride and the
\* reported rate, and the directory variant writes an empty JSON array for it
\* (as it does for every opened video that gave an empty list).
C8_ZeroFrameVideo ==
  /\ (cap.opened /\ cap.nframes = 0) =>
       /\ pc \in {"loop", "write"}
       /\ video_metadata = << >>
       /\ sampled = << >>
  /\ (pc = "files" /\ extracted # << >>) =>
       LET e == extracted[Len(extracted)] IN
         (e.idx + 1 = file_idx /\ e.opened /\ e.metadata = << >>) =>
           \E p \in 1..Len(metadata_dir) :
             /\ metadata_dir[p].name = MetadataFilename(video_dir[e.idx])
             /\ metadata_dir[p].content = << P("["), P("]") >>

\* process_video has returned from a frameless video with no reported rate,
\* at stride two
C8_Witness ==
  /\ pc = "write"
  /\ cap.opened
  /\ cap.nframes = 0
  /\ cap.reported = 0
  /\ frame_skip = 2
  /\ video_metadata = << >>

(* ------------------------------- C9 ------------------------------------ *)
\* the content of entry p makes the scan for query q raise: it does not parse,
\* its value cannot be iterated as records, a record has no string label, or a
\* record that matches q lacks one of the copied fields
ScanMustRaise(p, q) ==
  LET parsed == Once(Load(metadata_dir[p].content))
      val == parsed.val
  IN \/ ~parsed.ok
     \/ val.k \in {"num", "null"}
     \/ val.k = "dict" /\ DOMAIN val.v # {}
     \/ val.k = "str" /\ Len(val.v) > 0
     \/ /\ val.k = "list"
        /\ \E k \in 1..Len(val.v) :
             LET item == val.v[k] IN
               \/ item.k # "dict"
               \/ "object" \notin DOMAIN item.v
               \/ item.v["object"].k # "str"
               \/ /\ CIContains(item.v["object"].v, q)
                  /\ ~({"timestamp", "bbox", "confidence"} \subseteq DOMAIN item.v)

\* C9 (as claimed): a malformed metadata file never makes the search fail, and
\* contributes no result.
C9_MalformedFileIsSkipped ==
  /\ pc # "search_raised"
  /\ \A j \in 1..Len(results_found) : IsRecordArray(result_src[j].entry)

\* C9 (amended): search_metadata does not skip a malformed file.  It raises,
\* returning nothing, at the first .json entry that does not parse, whose value
\* cannot be iterated as records, that holds a record without a string label,
\* or that holds a matching record without timestamp, bbox or confidence; it
\* never gets past such an entry.
C9_MalformedFileFailsTheSearch ==
  /\ pc = "search_raised" =>
       /\ results_found = << >>
       /\ list_idx \in JsonEntries
       /\ ScanMustRaise(list_idx, query)
  /\ pc \in {"search", "search_done"} =>
       \A p \in JsonEntries : p < list_idx => ~ScanMustRaise(p, query)

\* the search failed on its second file after a first file with matches
C9_Witness ==
  /\ pc = "search_raised"
  /\ list_idx = 2
  /\ 1 \in JsonEntries
  /\ IsRecordArray(1)
  /\ \E k \in 1..Len(Stored(1)) : CIContains(Stored(1)[k].v["object"].v, query)

(* ------------------------------- C10 ----------------------------------- *)
\* C10: the records of process_video are in frame order at every point:
\* timestamps never decrease along the list, equal timestamps come from the
\* same frame, the records of one frame are in the detector's order; and the
\* results of a search keep the order of the records of each file.
C10_RecordsInFrameOrder ==
  /\ pc \in {"loop", "write", "raised"} =>
       /\ Len(origin) = Len(video_metadata)
       /\ \A i, j \in 1..Len(video_metadata) :
            i < j =>
              /\ FracLeq(video_metadata[i].timestamp, video_metadata[j].timestamp)
              /\ video_metadata[i].timestamp = video_metadata[j].timestamp
                   => origin[i].frame = origin[j].frame
              /\ origin[i].frame = origin[j].frame => origin[i].pos < origin[j].pos
       /\ \A i \in 1..Len(video_metadata) :
            \E d \in DetectorOutcomes :
              /\ origin[i].pos \in 1..Len(d)
              /\ video_metadata[i].confidence = d[origin[i].pos][5]
              /\ video_metadata[i].object = Names[d[origin[i].pos][6] + 1]
  /\ pc \in {"search", "search_done"} =>
       \A i, j \in 1..Len(results_found) :
         (i < j /\ result_src[i].entry = result_src[j].entry) =>
           /\ result_src[i].rec < result_src[j].rec
           /\ extracted # << >> =>
                FracLeq(results_found[i].timestamp, results_found[j].timestamp)

\* a search that returned the four records of two sampled frames of one video
C10_Witness ==
  /\ pc = "search_done"
  /\ Len(extracted) = 1
  /\ Len(results_found) = 4
  /\ results_found[1].timestamp # results_found[4].timestamp
  /\ results_found[1].object # results_found[2].object

====
